---- MODULE Spec2Model ----
(***************************************************************************)
(* Model of c2nl/inputters/utils_two_encoder.py: the Record Builder        *)
(* (process_examples), the Corpus Loader (load_data) and the Vocabulary    *)
(* Builder (load_words / build_word_dict).                                 *)
(*                                                                         *)
(* A string is a sequence of one-character strings, a token is a non-empty *)
(* string without whitespace.  Python's None is the empty tuple and a      *)
(* value x that is present is the one-element tuple <<x>>.                 *)
(***************************************************************************)
EXTENDS Integers, Sequences, FiniteSets

\* ---------------------------------------------------------------- bounds
\* largest value of max_src_len, max_cfg_len and max_tgt_len that is tried
MaxLen == 2
\* number of rows of the corpus the input files are cut from
MaxLines == 3
\* largest max_examples that is tried
MaxCap == 1
\* largest number of examples the vocabulary is built from
MaxExamples == 2
\* largest dict_size that is tried
MaxDict == 5

\* ---------------------------------------------------------------- Python values
None == <<>>
Some(x) == <<x>>
IsNone(o) == o = <<>>
Val(o) == o[1]

Whitespace == {" ", "\n"}

Min(a, b) == IF a < b THEN a ELSE b

\* s[:n] for n >= 0
Take(s, n) == SubSeq(s, 1, Min(n, Len(s)))

RECURSIVE LStrip(_)
LStrip(s) ==
    IF s # <<>> /\ Head(s) \in Whitespace THEN LStrip(Tail(s)) ELSE s

RECURSIVE RStrip(_)
RStrip(s) ==
    IF s # <<>> /\ s[Len(s)] \in Whitespace
    THEN RStrip(SubSeq(s, 1, Len(s) - 1))
    ELSE s

\* str.strip()
strip(s) == RStrip(LStrip(s))

RECURSIVE SplitFrom(_, _, _)
SplitFrom(s, cur, acc) ==
    IF s = <<>>
    THEN IF cur = <<>> THEN acc ELSE Append(acc, cur)
    ELSE IF Head(s) \in Whitespace
         THEN SplitFrom(Tail(s), <<>>, IF cur = <<>> THEN acc ELSE Append(acc, cur))
         ELSE SplitFrom(Tail(s), Append(cur, Head(s)), acc)

\* str.split(): the maximal runs of non-whitespace characters
split(s) == SplitFrom(s, <<>>, <<>>)

RECURSIVE join(_)
\* ' '.join(tokens)
join(tokens) ==
    IF tokens = <<>> THEN <<>>
    ELSE IF Len(tokens) = 1 THEN tokens[1]
    ELSE tokens[1] \o <<" ">> \o join(Tail(tokens))

LowerChar(c) ==
    CASE c = "A" -> "a"
      [] c = "B" -> "b"
      [] c = "N" -> "n"
      [] c = "T" -> "t"
      [] OTHER -> c

\* str.lower()
lower(s) == [k \in 1..Len(s) |-> LowerChar(s[k])]

\* ---------------------------------------------------------------- constants.py
BOS_WORD == <<"<s>">>
EOS_WORD == <<"</s>">>

\* TOKEN_TYPE_MAP.get(ct, 1)
TOKEN_TYPE_MAP_get(ct) ==
    CASE ct = <<"o">> -> 2
      [] ct = <<"v">> -> 3
      [] ct = <<"m">> -> 4
      [] OTHER -> 1

\* AST_TYPE_MAP.get(ct, 1)
AST_TYPE_MAP_get(ct) ==
    CASE ct = <<"N">> -> 1
      [] ct = <<"T">> -> 2
      [] OTHER -> 1

DATA_LANG_MAP(dataset_name) == dataset_name

LANG_ID_MAP(lang) == IF lang = "java" THEN 0 ELSE 1

\* ---------------------------------------------------------------- process_examples
\* lines 57-58: the table is chosen once, from code_tag_type
TAG_TYPE_MAP_get(code_tag_type, ct) ==
    IF code_tag_type = "subtoken" THEN TOKEN_TYPE_MAP_get(ct) ELSE AST_TYPE_MAP_get(ct)

\* only a tag string with fewer entries than the text has tokens is refused
TagMismatch_fewer(text, tag) ==
    ~IsNone(tag) /\ Len(split(text)) > Len(split(Val(tag)))

\* lines 45-50 and 68-73: the tag/token count check of one stream
TagMismatch(text, tag) ==
    ~IsNone(tag) /\ Len(split(text)) # Len(split(Val(tag)))

\* the tag list of a stream: [] without a tag string
TypeTokens(tag) == IF IsNone(tag) THEN <<>> ELSE split(Val(tag))

\* lines 63 and 85: both streams go through the table chosen by code_tag_type
MapTypes(code_tag_type, types) ==
    [k \in 1..Len(types) |-> TAG_TYPE_MAP_get(code_tag_type, types[k])]

\* lines 64-65 and 86-87
MaskOf(tag_type, types) ==
    IF tag_type # "subtoken"
    THEN Some([k \in 1..Len(types) |-> IF types[k] = <<"N">> THEN 1 ELSE 0])
    ELSE None

\* the tags are not cut to max_src_len with the tokens
BuildCode_uncut(lang_id, source, source_tag, max_src_len, code_tag_type) ==
    LET code_type == TypeTokens(source_tag)
    IN [text |-> source,
        language |-> lang_id,
        tokens |-> Take(split(source), max_src_len),
        type |-> MapTypes(code_tag_type, code_type),
        mask |-> MaskOf(code_tag_type, code_type)]

\* lines 59-65
BuildCode(lang_id, source, source_tag, max_src_len, code_tag_type) ==
    LET code_type == Take(TypeTokens(source_tag), max_src_len)
    IN [text |-> source,
        language |-> lang_id,
        tokens |-> Take(split(source), max_src_len),
        type |-> MapTypes(code_tag_type, code_type),
        mask |-> MaskOf(code_tag_type, code_type)]

\* lines 81-87
BuildCfg(lang_id, cfg_source, cfg_tag, max_cfg_len, code_tag_type, cfg_tag_type) ==
    LET cfg_type == Take(TypeTokens(cfg_tag), max_cfg_len)
    IN [text |-> cfg_source,
        language |-> lang_id,
        tokens |-> Take(split(cfg_source), max_cfg_len),
        type |-> MapTypes(code_tag_type, cfg_type),
        mask |-> MaskOf(cfg_tag_type, cfg_type)]

\* the target is cut to max_tgt_len in test mode too
SummTokens_cut(target, max_tgt_len, uncase, test_split) ==
    LET summ == IF uncase THEN lower(target) ELSE target
    IN Take(split(summ), max_tgt_len)

\* lines 90-93
SummTokens(target, max_tgt_len, uncase, test_split) ==
    LET summ == IF uncase THEN lower(target) ELSE target
        summ_tokens == split(summ)
    IN IF ~test_split THEN Take(summ_tokens, max_tgt_len) ELSE summ_tokens

\* lines 96-100
BuildSummary(summ_tokens) ==
    [text |-> join(summ_tokens),
     tokens |-> <<BOS_WORD>> \o summ_tokens \o <<EOS_WORD>>]

\* a is the record of the arguments of the call
process_examples(a) ==
    IF TagMismatch(a.source, a.source_tag) THEN None
    ELSE IF Len(Take(split(a.source), a.max_src_len)) = 0 THEN None
    ELSE IF TagMismatch(a.cfg_source, a.cfg_tag) THEN None
    ELSE IF Len(Take(split(a.cfg_source), a.max_cfg_len)) = 0 THEN None
    ELSE IF ~IsNone(a.target)
            /\ Len(SummTokens(Val(a.target), a.max_tgt_len, a.uncase, a.test_split)) = 0
    THEN None
    ELSE Some([code |-> BuildCode(a.lang_id, a.source, a.source_tag,
                                  a.max_src_len, a.code_tag_type),
               cfg |-> BuildCfg(a.lang_id, a.cfg_source, a.cfg_tag,
                                a.max_cfg_len, a.code_tag_type, a.cfg_tag_type),
               summary |-> IF IsNone(a.target) THEN None
                           ELSE Some(BuildSummary(SummTokens(Val(a.target), a.max_tgt_len,
                                                             a.uncase, a.test_split)))])

\* ---------------------------------------------------------------- state
VARIABLES
    pe_in,      \* the arguments of process_examples, test_split apart
    pe_done,    \* the values of test_split it has been called with
    pe_ret,     \* its return value for each of them
    files,      \* load_data: the lines of the files named by filenames, None for no file
    opts,       \* load_data: args, max_examples, dataset_name, test_split
    pc,         \* load_data: where the call is
    lists,      \* load_data: sources, source_tags, cfg, cfg_tags, targets
    pos,        \* load_data: the number of tuples the zip has yielded
    examples,   \* load_data: the examples accepted so far
    result,     \* load_data: the list returned, None before the return
    vb_in,      \* vocabulary: examples, fields, dict_size, no_special_token
    vb_words,   \* vocabulary: the set returned by a call of load_words, None before it
    word_dict   \* vocabulary: the Vocabulary of each of two runs of build_word_dict

pe_vars == <<pe_in, pe_done, pe_ret>>
ld_vars == <<files, opts, pc, lists, pos, examples, result>>
vb_vars == <<vb_in, vb_words, word_dict>>
vars == <<pe_vars, ld_vars, vb_vars>>

\* ---------------------------------------------------------------- inputs of the Record Builder
SourceTexts == { <<"a", " ", "b", " ", "c">>, <<>>, <<" ", "a", " ", " ", "B">> }
SourceTags == { <<"N", " ", "T", " ", "v">>, <<"N", " ", "v">> }
CfgTexts == { <<"x", " ", "y">>, <<>> }
CfgTags == { <<"T", " ", "v">>, <<"N">> }
Targets == { <<"A", " ", " ", "b", " ", "c">>, <<" ">> }
TagTypes == {"subtoken", "ast"}

PEInputs ==
    [lang_id : {0},
     source : SourceTexts,
     source_tag : {None} \cup {Some(t) : t \in SourceTags},
     cfg_source : CfgTexts,
     cfg_tag : {None} \cup {Some(t) : t \in CfgTags},
     target : {None} \cup {Some(t) : t \in Targets},
     max_src_len : 0..MaxLen,
     max_cfg_len : 0..MaxLen,
     max_tgt_len : 0..MaxLen,
     code_tag_type : TagTypes,
     cfg_tag_type : TagTypes,
     uncase : BOOLEAN]

WithSplit(a, test_split) ==
    [lang_id |-> a.lang_id, source |-> a.source, source_tag |-> a.source_tag,
     cfg_source |-> a.cfg_source, cfg_tag |-> a.cfg_tag, target |-> a.target,
     max_src_len |-> a.max_src_len, max_cfg_len |-> a.max_cfg_len,
     max_tgt_len |-> a.max_tgt_len, code_tag_type |-> a.code_tag_type,
     cfg_tag_type |-> a.cfg_tag_type, uncase |-> a.uncase,
     test_split |-> test_split]

\* the state of a part of the module that is not run
PEIdle ==
    /\ pe_in = None
    /\ pe_done = {}
    /\ pe_ret = [ts \in BOOLEAN |-> None]

NoLists == [sources |-> <<>>, source_tags |-> <<>>, cfg |-> <<>>, cfg_tags |-> <<>>,
            targets |-> <<>>]

LoaderIdle ==
    /\ files = None
    /\ opts = None
    /\ pc = "idle"
    /\ lists = NoLists
    /\ pos = 0
    /\ examples = <<>>
    /\ result = None

Runs == {1, 2}

VocabIdle ==
    /\ vb_in = None
    /\ vb_words = None
    /\ word_dict = [r \in Runs |-> None]

InitPE ==
    /\ pe_in \in PEInputs
    /\ pe_done = {}
    /\ pe_ret = [ts \in BOOLEAN |-> None]
    /\ LoaderIdle
    /\ VocabIdle

\* one call process_examples(..., test_split = ts) on the arguments pe_in
CallProcessExamples(ts) ==
    /\ ts \notin pe_done
    /\ pe_done' = pe_done \cup {ts}
    /\ pe_ret' = [pe_ret EXCEPT ![ts] = process_examples(WithSplit(pe_in, ts))]
    /\ UNCHANGED <<pe_in, ld_vars, vb_vars>>

NextPE == \E ts \in BOOLEAN : CallProcessExamples(ts)

SpecPE == InitPE /\ [][NextPE]_vars

\* ---------------------------------------------------------------- load_data
\* lines 115-142: one list per file, every line stripped; a file that is not given
\* becomes [None] * len(sources)
ReadPlain(file) == [j \in 1..Len(file) |-> strip(file[j])]
ReadOptional(file, n) ==
    IF IsNone(file) THEN [j \in 1..n |-> None]
    ELSE [j \in 1..Len(Val(file)) |-> Some(strip(Val(file)[j]))]

ReadLists(f) ==
    LET sources == ReadPlain(f.src)
    IN [sources |-> sources,
        cfg |-> ReadPlain(f.cfg),
        targets |-> ReadOptional(f.tgt, Len(sources)),
        source_tags |-> ReadOptional(f.src_tag, Len(sources)),
        cfg_tags |-> ReadOptional(f.cfg_tag, Len(sources))]

\* line 144: assert len(sources) == len(source_tags) == len(targets) == len(cfg)
AssertHolds(l) ==
    /\ Len(l.sources) = Len(l.source_tags)
    /\ Len(l.source_tags) = Len(l.targets)
    /\ Len(l.targets) = Len(l.cfg)

\* line 147: zip stops at the shortest of its five arguments
ZipLen(l) ==
    Min(Len(l.sources), Min(Len(l.source_tags), Min(Len(l.cfg),
        Min(Len(l.cfg_tags), Len(l.targets)))))

\* only 'java' is recognized
Recognized_java(dataset_name) == dataset_name \in {"java"}

\* line 148
Recognized(dataset_name) == dataset_name \in {"java", "python"}

\* lines 148-161: _ex for the tuple at position j
BuildAt(l, o, j) ==
    IF Recognized(o.dataset_name)
    THEN process_examples(
             [lang_id |-> LANG_ID_MAP(DATA_LANG_MAP(o.dataset_name)),
              source |-> l.sources[j],
              source_tag |-> l.source_tags[j],
              cfg_source |-> l.cfg[j],
              cfg_tag |-> l.cfg_tags[j],
              target |-> l.targets[j],
              max_src_len |-> o.args.max_src_len,
              max_cfg_len |-> o.args.max_cfg_len,
              max_tgt_len |-> o.args.max_tgt_len,
              code_tag_type |-> o.args.code_tag_type,
              cfg_tag_type |-> o.args.cfg_tag_type,
              uncase |-> o.args.uncase,
              test_split |-> o.test_split])
    ELSE None

\* lines 162-163
Accept(exs, ex) == IF ~IsNone(ex) THEN Append(exs, Val(ex)) ELSE exs

\* the loop stops on reaching the cap
BreakNow_at(max_examples, n) == max_examples # -1 /\ n >= max_examples

\* line 165
BreakNow(max_examples, n) == max_examples # -1 /\ n > max_examples

\* lines 115-142
ReadFiles ==
    /\ pc = "start"
    /\ lists' = ReadLists(files)
    /\ pc' = "assert"
    /\ UNCHANGED <<files, opts, pos, examples, result, pe_vars, vb_vars>>

\* line 144, and line 146 when it holds
CheckLengths ==
    /\ pc = "assert"
    /\ IF AssertHolds(lists)
       THEN pc' = "loop" /\ pos' = 0 /\ examples' = <<>>
       ELSE pc' = "raised" /\ UNCHANGED <<pos, examples>>
    /\ UNCHANGED <<files, opts, lists, result, pe_vars, vb_vars>>

\* lines 147-166: one turn of the loop, on the tuple at position pos + 1
Iterate ==
    /\ pc = "loop"
    /\ pos < ZipLen(lists)
    /\ pos' = pos + 1
    /\ examples' = Accept(examples, BuildAt(lists, opts, pos + 1))
    /\ pc' = IF BreakNow(opts.max_examples, Len(examples')) THEN "return" ELSE "loop"
    /\ UNCHANGED <<files, opts, lists, result, pe_vars, vb_vars>>

\* line 168, after the break or at the end of the zip
Return ==
    /\ \/ pc = "return"
       \/ pc = "loop" /\ pos >= ZipLen(lists)
    /\ result' = Some(examples)
    /\ pc' = "done"
    /\ UNCHANGED <<files, opts, lists, pos, examples, pe_vars, vb_vars>>

\* ---------------------------------------------------------------- inputs of the Corpus Loader
Line(text) == text \o <<"\n">>

\* a row that is accepted, a row whose code tags do not match its code, and another
\* row that is accepted
Rows ==
    { [src |-> Line(<<"a", " ", "b">>), src_tag |-> Line(<<"N", " ", "T">>),
       cfg |-> Line(<<"x">>), cfg_tag |-> Line(<<"T">>), tgt |-> Line(<<"A", " ", "b">>)],
      [src |-> Line(<<"c">>), src_tag |-> Line(<<"N", " ", "T">>),
       cfg |-> Line(<<"y">>), cfg_tag |-> Line(<<"v">>), tgt |-> Line(<<"c">>)],
      [src |-> Line(<<" ", "b">>), src_tag |-> Line(<<"v">>),
       cfg |-> Line(<<"y", " ", "x">>), cfg_tag |-> Line(<<"N", " ", "T">>),
       tgt |-> Line(<<"b", " ", "a">>)] }

Corpora == [1..MaxLines -> Rows]

Column(corpus, name, n) == [j \in 1..n |-> corpus[j][name]]

\* the line counts that differ by at most one from n: a file one line short or long
Near(n) == {m \in 0..MaxLines : m - n \in {-1, 0, 1}}

\* every file is cut from the same corpus, each one at its own line count
FileSets ==
    { [src |-> Column(c, "src", n),
       cfg |-> Column(c, "cfg", ncfg),
       tgt |-> IF ntgt = -1 THEN None ELSE Some(Column(c, "tgt", ntgt)),
       src_tag |-> IF nst = -1 THEN None ELSE Some(Column(c, "src_tag", nst)),
       cfg_tag |-> IF nct = -1 THEN None ELSE Some(Column(c, "cfg_tag", nct))] :
      <<c, n, ncfg, ntgt, nst, nct>> \in
          { t \in Corpora \X (0..MaxLines) \X (0..MaxLines) \X (-1..MaxLines)
                     \X (-1..MaxLines) \X (-1..MaxLines) :
              /\ t[3] \in Near(t[2])
              /\ t[4] \in {-1} \cup Near(t[2])
              /\ t[5] \in {-1} \cup Near(t[2])
              /\ t[6] \in {-1} \cup Near(t[2]) } }

LoaderArgs ==
    [max_src_len |-> 2, max_cfg_len |-> 1, max_tgt_len |-> 1,
     code_tag_type |-> "ast", cfg_tag_type |-> "subtoken", uncase |-> TRUE]

OptSets ==
    [args : {LoaderArgs},
     max_examples : -1..MaxCap,
     dataset_name : {"java", "python", "ruby"},
     test_split : {FALSE}]

Init ==
    /\ files \in FileSets
    /\ opts \in OptSets
    /\ pc = "start"
    /\ lists = NoLists
    /\ pos = 0
    /\ examples = <<>>
    /\ result = None
    /\ PEIdle
    /\ VocabIdle

Next == ReadFiles \/ CheckLengths \/ Iterate \/ Return

Spec == Init /\ [][Next]_vars

\* ---------------------------------------------------------------- vocabulary.py
PAD_WORD == <<"<blank>">>
UNK_WORD == <<"<unk>">>

\* Vocabulary.normalize: the precomposed letter "E" is decomposed into a base letter
\* and a combining mark
NormalizeChar(c) == IF c = "E" THEN <<"e", "^">> ELSE <<c>>

RECURSIVE normalize(_)
normalize(w) == IF w = <<>> THEN <<>> ELSE NormalizeChar(Head(w)) \o normalize(Tail(w))

\* Vocabulary(no_special_token): the words in the order of their indices, from 0
Vocabulary(no_special_token) == IF no_special_token THEN <<>> ELSE <<PAD_WORD, UNK_WORD>>

Contains(d, w) == \E n \in 1..Len(d) : d[n] = w

\* Vocabulary.add: a new word gets the next index
VocabularyAdd(d, w) == IF Contains(d, w) THEN d ELSE Append(d, w)

\* ---------------------------------------------------------------- load_words
RECURSIVE CounterUpdate(_, _)
\* Counter.update(words): a Counter keeps its keys in the order of their first insertion
CounterUpdate(counter, words) ==
    IF words = <<>> THEN counter
    ELSE LET w == Head(words)
             seen == \E n \in 1..Len(counter) : counter[n].word = w
             next == IF seen
                     THEN [n \in 1..Len(counter) |->
                              IF counter[n].word = w
                              THEN [word |-> w, count |-> counter[n].count + 1]
                              ELSE counter[n]]
                     ELSE Append(counter, [word |-> w, count |-> 1])
         IN CounterUpdate(next, Tail(words))

\* lines 191-196
Insert(counter, iterable) ==
    CounterUpdate(counter, [n \in 1..Len(iterable) |-> normalize(iterable[n])])

RECURSIVE InsertFields(_, _, _)
\* lines 200-201
InsertFields(counter, ex, fields) ==
    IF fields = <<>> THEN counter
    ELSE InsertFields(Insert(counter, ex[Head(fields)].tokens), ex, Tail(fields))

RECURSIVE CountWords(_, _, _)
\* lines 198-201
CountWords(counter, exs, fields) ==
    IF exs = <<>> THEN counter
    ELSE CountWords(InsertFields(counter, Head(exs), fields), Tail(exs), fields)

\* the two slots are reserved from dict_size = 2 on
CapOf_from2(dict_size) ==
    IF ~IsNone(dict_size) /\ Val(dict_size) # 0 /\ Val(dict_size) >= 2
    THEN Some(Val(dict_size) - 2)
    ELSE dict_size

\* line 204
CapOf(dict_size) ==
    IF ~IsNone(dict_size) /\ Val(dict_size) # 0 /\ Val(dict_size) > 2
    THEN Some(Val(dict_size) - 2)
    ELSE dict_size

RECURSIVE InsertByCount_unstable(_, _)
\* puts e before the entries that count as much: the word seen last wins a tie
InsertByCount_unstable(sorted, e) ==
    IF sorted = <<>> THEN <<e>>
    ELSE IF Head(sorted).count > e.count
         THEN <<Head(sorted)>> \o InsertByCount_unstable(Tail(sorted), e)
         ELSE <<e>> \o sorted

RECURSIVE InsertByCount(_, _)
\* puts e behind every entry that counts at least as much: the sort is stable
InsertByCount(sorted, e) ==
    IF sorted = <<>> THEN <<e>>
    ELSE IF Head(sorted).count >= e.count
         THEN <<Head(sorted)>> \o InsertByCount(Tail(sorted), e)
         ELSE <<e>> \o sorted

RECURSIVE SortByCount(_)
\* sorted(counter.items(), key = count, reverse = True)
SortByCount(counter) ==
    IF counter = <<>> THEN <<>>
    ELSE InsertByCount(SortByCount(SubSeq(counter, 1, Len(counter) - 1)),
                       counter[Len(counter)])

\* Counter.most_common(n): everything for None, nothing for n <= 0
most_common(counter, n) ==
    IF IsNone(n) THEN SortByCount(counter)
    ELSE IF Val(n) <= 0 THEN <<>>
    ELSE Take(SortByCount(counter), Val(n))

\* lines 198-207
load_words(exs, fields, dict_size) ==
    LET word_count == CountWords(<<>>, exs, fields)
        common == most_common(word_count, CapOf(dict_size))
    IN {common[n].word : n \in 1..Len(common)}

\* ---------------------------------------------------------------- build_word_dict
\* the orders in which a set can be iterated
Orders(S) ==
    {o \in [1..Cardinality(S) -> S] : \A m, n \in 1..Cardinality(S) : o[m] = o[n] => m = n}

RECURSIVE AddAll(_, _)
\* lines 216-217, for one order of iteration
AddAll(d, order) ==
    IF order = <<>> THEN d ELSE AddAll(VocabularyAdd(d, Head(order)), Tail(order))

\* a call of load_words
LoadWords ==
    /\ ~IsNone(vb_in)
    /\ IsNone(vb_words)
    /\ vb_words' = Some(load_words(Val(vb_in).examples, Val(vb_in).fields, Val(vb_in).dict_size))
    /\ UNCHANGED <<vb_in, word_dict, pe_vars, ld_vars>>

\* lines 215-218: run r of build_word_dict; the caller is sequential, it has called
\* load_words and the runs before r.  The set is iterated in some order.
BuildWordDict(r) ==
    /\ ~IsNone(vb_in)
    /\ ~IsNone(vb_words)
    /\ IsNone(word_dict[r])
    /\ \A q \in Runs : q < r => ~IsNone(word_dict[q])
    /\ \E order \in Orders(load_words(Val(vb_in).examples, Val(vb_in).fields,
                                      Val(vb_in).dict_size)) :
           word_dict' = [word_dict EXCEPT
                            ![r] = Some(AddAll(Vocabulary(Val(vb_in).no_special_token), order))]
    /\ UNCHANGED <<vb_in, vb_words, pe_vars, ld_vars>>

\* ---------------------------------------------------------------- inputs of the Vocabulary Builder
Tokens(ts) == [tokens |-> ts]

ExamplePool ==
    { [code |-> Tokens(<< <<"a">>, <<"b">>, <<"a">> >>),
       cfg |-> Tokens(<< <<"c">> >>),
       summary |-> Tokens(<< BOS_WORD, <<"c">>, EOS_WORD >>)],
      [code |-> Tokens(<< <<"b">>, <<"E">> >>),
       cfg |-> Tokens(<< <<"e", "^">>, <<"c">> >>),
       summary |-> Tokens(<< BOS_WORD, <<"E">>, EOS_WORD >>)],
      [code |-> Tokens(<< <<"c">>, <<"c">>, <<"a">> >>),
       cfg |-> Tokens(<< <<"b">>, <<"b">> >>),
       summary |-> Tokens(<< BOS_WORD, <<"c">>, <<"c">>, EOS_WORD >>)] }

ExampleLists == UNION {[1..n -> ExamplePool] : n \in 1..MaxExamples}

FieldLists == { <<"code">>, <<"code", "cfg">>, <<"summary">> }

VocabInputs ==
    [examples : ExampleLists,
     fields : FieldLists,
     dict_size : {None} \cup {Some(n) : n \in 0..MaxDict},
     no_special_token : BOOLEAN]

InitVocab ==
    /\ vb_in \in {Some(v) : v \in VocabInputs}
    /\ vb_words = None
    /\ word_dict = [r \in Runs |-> None]
    /\ PEIdle
    /\ LoaderIdle

NextVocab == LoadWords \/ \E r \in Runs : BuildWordDict(r)

SpecVocab == InitVocab /\ [][NextVocab]_vars

\* ---------------------------------------------------------------- claims on the Record Builder
Returned(ts) == ts \in pe_done /\ ~IsNone(pe_ret[ts])
Rejected(ts) == ts \in pe_done /\ IsNone(pe_ret[ts])
Ex(ts) == Val(pe_ret[ts])

NTokens(text) == Len(split(text))
CodeTagsDiffer == ~IsNone(pe_in.source_tag) /\ NTokens(pe_in.source) # NTokens(Val(pe_in.source_tag))
CodeEmpty == Min(NTokens(pe_in.source), pe_in.max_src_len) = 0
CfgTagsDiffer == ~IsNone(pe_in.cfg_tag) /\ NTokens(pe_in.cfg_source) # NTokens(Val(pe_in.cfg_tag))
CfgEmpty == Min(NTokens(pe_in.cfg_source), pe_in.max_cfg_len) = 0
TargetEmpty(ts) ==
    /\ ~IsNone(pe_in.target)
    /\ (IF ts THEN NTokens(Val(pe_in.target))
        ELSE Min(NTokens(Val(pe_in.target)), pe_in.max_tgt_len)) = 0

\* C2: the cfg stream's tags are mapped with the table chosen by cfg_tag_type alone:
\* cfg.type is the token-type lookup when cfg_tag_type = 'subtoken' and the AST-type
\* lookup otherwise, whatever code_tag_type is.
C2_CfgTableByCfgMode ==
    \A ts \in BOOLEAN :
        Returned(ts) =>
            LET tags == Take(TypeTokens(pe_in.cfg_tag), pe_in.max_cfg_len)
            IN Ex(ts).cfg.type =
                   [k \in 1..Len(tags) |->
                       IF pe_in.cfg_tag_type = "subtoken"
                       THEN TOKEN_TYPE_MAP_get(tags[k])
                       ELSE AST_TYPE_MAP_get(tags[k])]

\* C7: process_examples returns None exactly when a supplied code tag string has another
\* token count than the code, the truncated code is empty, a supplied cfg tag string has
\* another token count than the cfg, the truncated cfg is empty, or a supplied target is
\* empty after the applicable truncation; a code-stream rejection gives None whatever the
\* cfg and the target are, and every other call returns code, cfg and summary, the
\* summary being None only when no target was supplied.
C7_RejectExactly ==
    \A ts \in pe_done :
        /\ IsNone(pe_ret[ts]) <=>
               (CodeTagsDiffer \/ CodeEmpty \/ CfgTagsDiffer \/ CfgEmpty \/ TargetEmpty(ts))
        /\ (CodeTagsDiffer \/ CodeEmpty) => IsNone(pe_ret[ts])
        /\ ~IsNone(pe_ret[ts]) =>
               /\ DOMAIN Ex(ts) = {"code", "cfg", "summary"}
               /\ Ex(ts).code.tokens = Take(split(pe_in.source), pe_in.max_src_len)
               /\ Ex(ts).cfg.tokens = Take(split(pe_in.cfg_source), pe_in.max_cfg_len)
               /\ IsNone(Ex(ts).summary) <=> IsNone(pe_in.target)

\* a call rejected for its code stream alone, the cfg and the target being valid
C7_Witness ==
    /\ Rejected(TRUE)
    /\ CodeTagsDiffer
    /\ ~CodeEmpty /\ ~CfgTagsDiffer /\ ~CfgEmpty /\ ~IsNone(pe_in.target) /\ ~TargetEmpty(TRUE)

\* the target's tokens, lowercased under uncase
TargetTokens == split(IF pe_in.uncase THEN lower(Val(pe_in.target)) ELSE Val(pe_in.target))
LongTarget == ~IsNone(pe_in.target) /\ Len(TargetTokens) > pe_in.max_tgt_len
BothCalled == pe_done = BOOLEAN

SummaryCut(ts) ==
    /\ Returned(ts)
    /\ ~IsNone(Ex(ts).summary)
    /\ Len(Val(Ex(ts).summary).tokens) = pe_in.max_tgt_len + 2
    /\ Val(Ex(ts).summary).tokens =
           <<BOS_WORD>> \o Take(TargetTokens, pe_in.max_tgt_len) \o <<EOS_WORD>>
    /\ Val(Ex(ts).summary).text = join(Take(TargetTokens, pe_in.max_tgt_len))

SummaryWhole(ts) ==
    /\ Returned(ts)
    /\ ~IsNone(Ex(ts).summary)
    /\ Val(Ex(ts).summary).tokens = <<BOS_WORD>> \o TargetTokens \o <<EOS_WORD>>

SameFragments ==
    /\ Ex(TRUE).code = Ex(FALSE).code
    /\ Ex(TRUE).cfg = Ex(FALSE).cfg

\* C8 as stated: test_split changes only the summary; the two calls return the same code
\* and cfg, and for a target of more than max_tgt_len tokens test_split = false gives the
\* begin marker, the first max_tgt_len tokens and the end marker (text: those tokens joined
\* by single spaces) and test_split = true the begin marker, all tokens and the end marker.
C8_Original ==
    BothCalled =>
        /\ Returned(TRUE) <=> Returned(FALSE)
        /\ Returned(TRUE) /\ Returned(FALSE) => SameFragments
        /\ Returned(TRUE) /\ LongTarget => SummaryCut(FALSE) /\ SummaryWhole(TRUE)

\* C8 amended: whenever both calls return an example their code and cfg are the same, and
\* an example returned for test_split = false is returned for test_split = true too; for a
\* target of more than max_tgt_len tokens and max_tgt_len >= 1 the summaries are as stated;
\* with max_tgt_len = 0 the call with test_split = false returns None.
C8_TestSplitOnlySummary ==
    BothCalled =>
        /\ Returned(FALSE) => Returned(TRUE)
        /\ Returned(TRUE) /\ Returned(FALSE) => SameFragments
        /\ Returned(TRUE) /\ LongTarget /\ pe_in.max_tgt_len >= 1 =>
               SummaryCut(FALSE) /\ SummaryWhole(TRUE)
        /\ Returned(TRUE) /\ ~IsNone(pe_in.target) /\ pe_in.max_tgt_len = 0 => Rejected(FALSE)

\* both calls made on a target longer than max_tgt_len >= 1, written with a double space
C8_Witness ==
    /\ BothCalled
    /\ Returned(TRUE) /\ Returned(FALSE)
    /\ LongTarget /\ pe_in.max_tgt_len >= 1
    /\ Val(Ex(FALSE).summary).text # Val(pe_in.target)

FragmentBounded(frag, max_len) ==
    /\ Len(frag.tokens) > 0
    /\ Len(frag.tokens) <= max_len

FragmentAligned(frag) ==
    /\ Len(frag.type) = Len(frag.tokens)
    /\ ~IsNone(frag.mask) => Len(Val(frag.mask)) = Len(frag.tokens)

FragmentUntagged(frag) ==
    /\ frag.type = <<>>
    /\ ~IsNone(frag.mask) => Val(frag.mask) = <<>>

\* C9 as stated: in every returned example the code and the cfg fragment have as many
\* types as tokens and, when a mask is set, as many mask entries as tokens, also when no
\* tag string is supplied; the tokens are non-empty and at most the maximum length.
C9_Original ==
    \A ts \in BOOLEAN :
        Returned(ts) =>
            /\ FragmentAligned(Ex(ts).code) /\ FragmentBounded(Ex(ts).code, pe_in.max_src_len)
            /\ FragmentAligned(Ex(ts).cfg) /\ FragmentBounded(Ex(ts).cfg, pe_in.max_cfg_len)

\* C9 amended: in every returned example the tokens of the code and of the cfg fragment
\* are non-empty and at most the maximum length; a fragment whose tag string is supplied
\* has as many types as tokens and, when a mask is set, as many mask entries as tokens; a
\* fragment without a tag string has an empty type list and, when a mask is set, an empty
\* mask.
C9_AlignedWhenTagged ==
    \A ts \in BOOLEAN :
        Returned(ts) =>
            /\ FragmentBounded(Ex(ts).code, pe_in.max_src_len)
            /\ FragmentBounded(Ex(ts).cfg, pe_in.max_cfg_len)
            /\ IF IsNone(pe_in.source_tag) THEN FragmentUntagged(Ex(ts).code)
               ELSE FragmentAligned(Ex(ts).code)
            /\ IF IsNone(pe_in.cfg_tag) THEN FragmentUntagged(Ex(ts).cfg)
               ELSE FragmentAligned(Ex(ts).cfg)

\* a returned example whose tagged code was cut to max_src_len, with a mask
C9_Witness ==
    /\ Returned(FALSE)
    /\ ~IsNone(pe_in.source_tag) /\ ~IsNone(pe_in.cfg_tag)
    /\ NTokens(pe_in.source) > pe_in.max_src_len
    /\ ~IsNone(Ex(FALSE).code.mask)

\* ---------------------------------------------------------------- claims on the Corpus Loader
\* the line counts of the files that are present
LineCounts ==
    {Len(files.src), Len(files.cfg)}
        \cup {Len(Val(f)) : f \in {g \in {files.tgt, files.src_tag, files.cfg_tag} : ~IsNone(g)}}

EqualLineCounts == Cardinality(LineCounts) = 1

\* the entry of an optional file at position j, None without the file
EntryAt(file, j) == IF IsNone(file) THEN None ELSE Some(strip(Val(file)[j]))

\* what the Record Builder makes of the lines at position j of the files
LineExample(j) ==
    process_examples(
        [lang_id |-> IF opts.dataset_name = "java" THEN 0 ELSE 1,
         source |-> strip(files.src[j]),
         source_tag |-> EntryAt(files.src_tag, j),
         cfg_source |-> strip(files.cfg[j]),
         cfg_tag |-> EntryAt(files.cfg_tag, j),
         target |-> EntryAt(files.tgt, j),
         max_src_len |-> opts.args.max_src_len,
         max_cfg_len |-> opts.args.max_cfg_len,
         max_tgt_len |-> opts.args.max_tgt_len,
         code_tag_type |-> opts.args.code_tag_type,
         cfg_tag_type |-> opts.args.cfg_tag_type,
         uncase |-> opts.args.uncase,
         test_split |-> opts.test_split])

\* the number of positions at which every file that is present has a line
Presented == CHOOSE m \in LineCounts : \A n \in LineCounts : m <= n

RECURSIVE AcceptedUpTo(_)
\* the examples of the accepted lines among the first j, in input order
AcceptedUpTo(j) ==
    IF j = 0 THEN <<>>
    ELSE IF opts.dataset_name \in {"java", "python"} /\ ~IsNone(LineExample(j))
         THEN Append(AcceptedUpTo(j - 1), Val(LineExample(j)))
         ELSE AcceptedUpTo(j - 1)

\* C1: load_data raises, and returns nothing, whenever the files that are present do not
\* all have the same number of lines, cfg_tag included.
C1_AbortOnAnyMismatch ==
    pc \in {"loop", "return", "done"} => EqualLineCounts

\* C6: with max_examples = N >= 0 and at least N + 1 accepted lines the result is the first
\* N + 1 accepted examples in input order and the loop has stopped at the line of the last
\* of them; with fewer accepted lines, or max_examples = -1, the result is all accepted
\* examples; the result is never longer than N + 1.  The lines are the positions at which
\* every file that is present has a line.
C6_StopAfterExceeding ==
    pc = "done" =>
        LET N == opts.max_examples
            all == AcceptedUpTo(Presented)
        IN IF N >= 0 /\ Len(all) >= N + 1
           THEN /\ Val(result) = SubSeq(all, 1, N + 1)
                /\ Len(AcceptedUpTo(pos)) = N + 1
                /\ Len(AcceptedUpTo(pos - 1)) = N
           ELSE /\ Val(result) = all
                /\ pos = Presented
                /\ N >= 0 => Len(Val(result)) <= N + 1

\* the load has stopped on exceeding the cap, after a rejected line and before the last line
C6_Witness ==
    /\ pc = "done"
    /\ opts.max_examples >= 0
    /\ Len(Val(result)) = opts.max_examples + 1
    /\ pos < Presented
    /\ Len(Val(result)) < pos
    /\ Len(AcceptedUpTo(Presented)) > Len(Val(result))

\* C10: with equal line counts the load does not raise; with a recognized dataset and no
\* cap it returns the examples of the accepted lines, in input order, each built from the
\* entries at one position of the five streams; with an unrecognized dataset it returns
\* an empty list.
C10_SkipsRejectedLines ==
    EqualLineCounts =>
        /\ pc # "raised"
        /\ pc = "done" /\ opts.max_examples = -1 /\ opts.dataset_name \in {"java", "python"} =>
               Val(result) = AcceptedUpTo(Len(files.src))
        /\ pc = "done" /\ opts.dataset_name \notin {"java", "python"} => Val(result) = <<>>

\* a load of the dataset 'python' that has skipped a line and accepted a later one
C10_Witness ==
    /\ pc = "done"
    /\ EqualLineCounts
    /\ opts.max_examples = -1
    /\ opts.dataset_name = "python"
    /\ ~IsNone(files.src_tag) /\ ~IsNone(files.cfg_tag) /\ ~IsNone(files.tgt)
    /\ \E j \in 1..Len(files.src) :
           /\ IsNone(LineExample(j))
           /\ Len(AcceptedUpTo(j)) < Len(Val(result))

\* ---------------------------------------------------------------- claims on the Vocabulary Builder
RECURSIVE Flatten(_)
Flatten(seqs) == IF seqs = <<>> THEN <<>> ELSE Head(seqs) \o Flatten(Tail(seqs))

\* the normalized tokens of the requested fields of all examples, in the order they are read
AllTokens ==
    LET v == Val(vb_in)
        perExample == [e \in 1..Len(v.examples) |->
                          Flatten([f \in 1..Len(v.fields) |->
                                      v.examples[e][v.fields[f]].tokens])]
        raw == Flatten(perExample)
    IN [n \in 1..Len(raw) |-> normalize(raw[n])]

WordsOf(toks) == {toks[n] : n \in 1..Len(toks)}
CountIn(toks, w) == Cardinality({n \in 1..Len(toks) : toks[n] = w})
FirstIn(toks, w) == CHOOSE n \in 1..Len(toks) : toks[n] = w /\ \A m \in 1..(n - 1) : toks[m] # w

\* v is ranked before w: more frequent, or as frequent and seen first
Before(toks, v, w) ==
    \/ CountIn(toks, v) > CountIn(toks, w)
    \/ CountIn(toks, v) = CountIn(toks, w) /\ FirstIn(toks, v) < FirstIn(toks, w)

\* the m best ranked words
TopRanked(toks, m) ==
    {w \in WordsOf(toks) : Cardinality({v \in WordsOf(toks) : Before(toks, v, w)}) < m}

Loaded == ~IsNone(vb_in) /\ ~IsNone(vb_words)
DictSize == Val(vb_in).dict_size
BothBuilt == ~IsNone(vb_in) /\ \A r \in Runs : ~IsNone(word_dict[r])

\* C3: two runs of build_word_dict on the same examples, fields and dict_size give the
\* same word-to-index assignment, whatever the order in which the set returned by
\* load_words is iterated.
C3_Deterministic ==
    BothBuilt => Val(word_dict[1]) = Val(word_dict[2])

\* C4 as stated: with a dict_size of at most 2 no cap is applied and every distinct
\* normalized token is retained, as when dict_size is not given.
C4_Original ==
    Loaded /\ ~IsNone(DictSize) /\ Val(DictSize) <= 2 => Val(vb_words) = WordsOf(AllTokens)

\* C4 amended: without a dict_size every distinct normalized token is retained; with a
\* dict_size of 0, 1 or 2 the two reserved slots are not subtracted and dict_size itself is
\* the cap: the min(dict_size, number of distinct tokens) best ranked words are retained,
\* none for dict_size = 0.
C4_SmallSizeIsTheCap ==
    Loaded /\ (IsNone(DictSize) \/ Val(DictSize) <= 2) =>
        LET toks == AllTokens
        IN /\ IsNone(DictSize) => Val(vb_words) = WordsOf(toks)
           /\ ~IsNone(DictSize) =>
                  /\ Val(vb_words) = TopRanked(toks, Val(DictSize))
                  /\ Cardinality(Val(vb_words)) =
                         Min(Val(DictSize), Cardinality(WordsOf(toks)))

\* load_words was called with dict_size = 2 on more than two distinct words
C4_Witness ==
    /\ Loaded
    /\ DictSize = Some(2)
    /\ Cardinality(WordsOf(AllTokens)) > 2
    /\ Cardinality(Val(vb_words)) = 2

\* C5: with dict_size = N > 2 exactly min(N - 2, number of distinct normalized tokens)
\* words are retained, the most frequent in the one count over all requested fields of
\* all examples, the token seen first winning between equal counts.
C5_CapMinusTwo ==
    Loaded /\ ~IsNone(DictSize) /\ Val(DictSize) > 2 =>
        LET toks == AllTokens
            all == WordsOf(toks)
        IN /\ Cardinality(Val(vb_words)) = Min(Val(DictSize) - 2, Cardinality(all))
           /\ Val(vb_words) \subseteq all
           /\ \A w \in Val(vb_words) : \A v \in all \ Val(vb_words) : Before(toks, w, v)

\* a cap below the number of distinct words, decided between two words of equal count
C5_Witness ==
    /\ Loaded
    /\ ~IsNone(DictSize) /\ Val(DictSize) > 2
    /\ Cardinality(WordsOf(AllTokens)) > Val(DictSize) - 2
    /\ \E w \in Val(vb_words) : \E v \in WordsOf(AllTokens) \ Val(vb_words) :
           CountIn(AllTokens, w) = CountIn(AllTokens, v)

====
